---------------------------- MODULE Spec2Model ----------------------------
(***************************************************************************)
(* A model of the calendar-scheduling chat backend (src/main.py): the      *)
(* calendar gateway, the three tools, the two-node agent/action graph and  *)
(* the /chat endpoint with its completion fallback.                        *)
(*                                                                         *)
(* Texts are sequences of one-character strings, so that Python's          *)
(* `word in text.lower()` is a real substring test on lower-cased          *)
(* characters.  Dictionaries are functions whose DOMAIN is the set of keys *)
(* present.                                                                *)
(***************************************************************************)
EXTENDS Integers, Sequences, FiniteSets, TLC

(***************************************************************************)
(* Bounds of the model.                                                    *)
(***************************************************************************)
\* longest message, counted in vocabulary words
MaxWords == 2
\* chat requests served in one behaviour
MaxRequests == 2
\* datetime.now() ranges over this many consecutive days from Monday
NowDays == 7

(***************************************************************************)
(* Text: str.lower(), the `in` operator, concatenation.                    *)
(***************************************************************************)
UpperCase == <<"A","B","C","D","E","F","G","H","I","J","K","L","M","N","O","P","Q","R","S","T","U","V","W","X","Y","Z">>
LowerCase == <<"a","b","c","d","e","f","g","h","i","j","k","l","m","n","o","p","q","r","s","t","u","v","w","x","y","z">>

\* the lower-case letter of every upper-case letter
ToLower ==
    [c \in {UpperCase[i] : i \in 1..Len(UpperCase)} |->
        LowerCase[CHOOSE i \in 1..Len(UpperCase) : UpperCase[i] = c]]

\* str.lower() on one character
LowerChar(c) == IF c \in DOMAIN ToLower THEN ToLower[c] ELSE c

\* str.lower()
Lower(text) == [i \in 1..Len(text) |-> LowerChar(text[i])]

\* Python's `word in text` on strings (t is text, evaluated once)
Contains(text, word) ==
    \E t \in {text} :
        \E i \in 1..(Len(t) - Len(word) + 1) :
            \A j \in 1..Len(word) : t[i + j - 1] = word[j]

\* any(word in text for word in words)
AnyIn(words, text) == \E t \in {text} : \E w \in words : Contains(t, w)

\* "sep".join(parts)
RECURSIVE Join(_, _)
Join(sep, parts) ==
    IF parts = <<>> THEN <<>>
    ELSE IF Len(parts) = 1 THEN parts[1]
    ELSE parts[1] \o sep \o Join(sep, Tail(parts))

\* str(n) for a natural number
RECURSIVE Digits(_)
Digits(n) ==
    IF n < 10 THEN <<<<"0","1","2","3","4","5","6","7","8","9">>[n + 1]>>
    ELSE Digits(n \div 10) \o <<<<"0","1","2","3","4","5","6","7","8","9">>[(n % 10) + 1]>>

\* a number printed on two digits (%d of strftime, isoformat fields)
TwoDigits(n) == IF n < 10 THEN <<"0">> \o Digits(n) ELSE Digits(n)

\* int(text) for a text of decimal digits
RECURSIVE ParseInt(_)
ParseInt(text) ==
    IF text = <<>> THEN 0
    ELSE ParseInt(SubSeq(text, 1, Len(text) - 1)) * 10
         + ((CHOOSE k \in 1..10 : <<"0","1","2","3","4","5","6","7","8","9">>[k] = text[Len(text)]) - 1)

(***************************************************************************)
(* The messages of the model: one or more words of a vocabulary joined by  *)
(* single spaces.  The vocabulary holds every keyword of the code, in      *)
(* mixed case, words that hold a keyword inside (yesterday, freedom) and   *)
(* words that hold none.                                                   *)
(***************************************************************************)
Vocabulary ==
    { <<"S","c","h","e","d","u","l","e">>, <<"b","o","o","k">>, <<"A","P","P","O","I","N","T","M","E","N","T">>, <<"m","e","e","t","i","n","g">>,
      <<"a","v","a","i","l","a","b","l","e">>, <<"F","r","e","e">>, <<"c","h","e","c","k">>,
      <<"c","o","n","f","i","r","m">>, <<"Y","E","S">>, <<"o","k","a","y">>,
      <<"f","r","i","d","a","y">>, <<"T","o","m","o","r","r","o","w"," ","A","f","t","e","r","n","o","o","n">>, <<"m","o","r","n","i","n","g">>, <<"t","o","d","a","y">>,
      <<"y","e","s","t","e","r","d","a","y">>, <<"w","e","a","t","h","e","r">>, <<"h","e","l","l","o">> }

RECURSIVE Phrases(_, _)
Phrases(words, n) ==
    IF n = 0 THEN {}
    ELSE IF n = 1 THEN words
    ELSE Phrases(words, n - 1)
         \cup { p \o <<" ">> \o w : p \in Phrases(words, n - 1), w \in words }

\* the utterances the intent detection is applied to: the empty text and
\* every phrase of at most MaxWords words
Utterances == {<<>>} \cup Phrases(Vocabulary, MaxWords)

\* the messages chat requests carry: the phrases over a smaller vocabulary
\* with a word of every intent, the two relative days, a word with a keyword
\* inside and two words without any
ChatVocabulary ==
    { <<"b","o","o","k">>, <<"F","r","e","e">>, <<"Y","E","S">>, <<"f","r","i","d","a","y">>, <<"T","o","m","o","r","r","o","w"," ","A","f","t","e","r","n","o","o","n">>,
      <<"y","e","s","t","e","r","d","a","y">>, <<"w","e","a","t","h","e","r">>, <<"m","o","r","n","i","n","g">> }

Messages == {<<>>} \cup Phrases(ChatVocabulary, MaxWords)

SessionIds == {"s1", "s2"}

(***************************************************************************)
(* datetime.  A datetime is [day, hour, minute]: day 0 is Monday           *)
(* 2024-01-01 and every date of the model lies in January 2024; seconds    *)
(* and microseconds are left out (the code zeroes them before it prints a  *)
(* time).                                                                  *)
(***************************************************************************)
DayNames == << <<"M","o","n","d","a","y">>, <<"T","u","e","s","d","a","y">>, <<"W","e","d","n","e","s","d","a","y">>, <<"T","h","u","r","s","d","a","y">>,
               <<"F","r","i","d","a","y">>, <<"S","a","t","u","r","d","a","y">>, <<"S","u","n","d","a","y">> >>

\* the values datetime.now() takes: a morning and an evening hour of each day
Nows == [day : 0..(NowDays - 1), hour : {8, 20}, minute : {0}]

\* datetime.weekday(): Monday is 0
weekday(dt) == dt.day % 7

\* dt + timedelta(days=n)
AddDays(dt, n) == [dt EXCEPT !.day = @ + n]

\* dt + timedelta(hours=n)
AddHours(dt, n) ==
    [dt EXCEPT !.day = @ + ((dt.hour + n) \div 24), !.hour = (dt.hour + n) % 24]

\* dt.replace(hour=h, minute=m)
ReplaceTime(dt, h, m) == [dt EXCEPT !.hour = h, !.minute = m]

\* dt.isoformat(): YYYY-MM-DDTHH:MM:SS
isoformat(dt) ==
    <<"2","0","2","4","-","0","1","-">> \o TwoDigits(dt.day + 1) \o <<"T">> \o TwoDigits(dt.hour)
    \o <<":">> \o TwoDigits(dt.minute) \o <<":","0","0">>

\* dt.strftime('%A, %B %d')
StrfDate(dt) ==
    DayNames[weekday(dt) + 1] \o <<","," ","J","a","n","u","a","r","y"," ">> \o TwoDigits(dt.day + 1)

\* dt.strftime('%I:%M %p')
StrfTime(dt) ==
    TwoDigits(IF dt.hour % 12 = 0 THEN 12 ELSE dt.hour % 12) \o <<":">>
    \o TwoDigits(dt.minute) \o (IF dt.hour < 12 THEN <<" ","A","M">> ELSE <<" ","P","M">>)

\* dt.strftime("%Y%m%d")
StrfCompact(dt) == <<"2","0","2","4","0","1">> \o TwoDigits(dt.day + 1)

\* int(dt.timestamp()), the process running in UTC (19723 days from the
\* epoch to 2024-01-01)
Timestamp(dt) == (19723 + dt.day) * 86400 + dt.hour * 3600 + dt.minute * 60

\* Python's None where a text is expected
NoneValue == <<"None">>

\* dateutil's parser.parse on an ISO text; raises on anything else
ParseRaises(text) ==
    ~(Len(text) = 19 /\ text[11] = "T" /\ SubSeq(text, 1, 8) = <<"2","0","2","4","-","0","1","-">>)

ParseDateTime(text) ==
    [day    |-> ParseInt(SubSeq(text, 9, 10)) - 1,
     hour   |-> ParseInt(SubSeq(text, 12, 13)),
     minute |-> ParseInt(SubSeq(text, 15, 16))]

\* str(e) of the TypeError parser.parse(None) raises
ParseErrorText == <<"P","a","r","s","e","r"," ","m","u","s","t"," ","b","e"," ","a"," ","s","t","r","i","n","g"," ","o","r"," ","c","h","a","r","a","c","t","e","r"," ","s","t","r","e","a","m",","," ","n","o","t"," ","N","o","n","e","T","y","p","e">>

(***************************************************************************)
(* Calendar Gateway: GoogleCalendarService.                                *)
(***************************************************************************)
\* self.service: None (no credentials: mock data) or a live provider client
Services == {"none", "live"}

\* what events().insert(...).execute() does on one call
InsertOutcomes == {"ok", "raise"}

\* str(e) of the exception a failing provider call raises
ProviderErrorText == <<"H","t","t","p","E","r","r","o","r"," ","5","0","3">>

\* the id the provider assigns to its n-th event
ProviderId(n) == <<"e","v","t">> \o Digits(n)

\* the provider's representation of an inserted event
ProviderEvent(id, body) ==
    [id |-> id, summary |-> body.summary, start |-> body.start,
     end |-> body.end, status |-> <<"c","o","n","f","i","r","m","e","d">>]

\* an event of the provider that carries neither dateTime nor date
UntimedEvent ==
    [id |-> <<"e","v","t","0">>, summary |-> <<"U","n","t","i","m","e","d">>, start |-> << >>, end |-> << >>,
     status |-> <<"c","o","n","f","i","r","m","e","d">>]

\* what events().list(...).execute() does on one call: it raises, or returns
\* the stored events, or returns an event without a time
ListReplies(stored) ==
    { [kind |-> "raise", items |-> <<>>],
      [kind |-> "items", items |-> stored],
      [kind |-> "items", items |-> <<UntimedEvent>>] }

\* dict.get(key, default)
Get(d, key, default) == IF key \in DOMAIN d THEN d[key] ELSE default

\* GoogleCalendarService._format_event
_format_event(event) ==
    [id     |-> event.id,
     title  |-> Get(event, "summary", <<"N","o"," ","T","i","t","l","e">>),
     start  |-> Get(event.start, "dateTime", Get(event.start, "date", NoneValue)),
     end    |-> Get(event.end, "dateTime", Get(event.end, "date", NoneValue)),
     status |-> Get(event, "status", <<"c","o","n","f","i","r","m","e","d">>)]

\* faulty variant: the mock events computed from the hour of start_time itself
_get_mock_events_NoReplace(start_time, end_time) ==
    LET current == start_time
        morning ==
            IF current.hour <= 10
            THEN << [id     |-> <<"m","o","c","k","_","1","_">> \o StrfCompact(current),
                     title  |-> <<"T","e","a","m"," ","S","t","a","n","d","u","p">>,
                     start  |-> isoformat(ReplaceTime(current, 10, current.minute)),
                     end    |-> isoformat(ReplaceTime(current, 10, 30)),
                     status |-> <<"c","o","n","f","i","r","m","e","d">>] >>
            ELSE << >>
        afternoon ==
            IF current.hour <= 15
            THEN << [id     |-> <<"m","o","c","k","_","2","_">> \o StrfCompact(current),
                     title  |-> <<"C","l","i","e","n","t"," ","R","e","v","i","e","w">>,
                     start  |-> isoformat(ReplaceTime(current, 15, current.minute)),
                     end    |-> isoformat(ReplaceTime(current, 16, current.minute)),
                     status |-> <<"c","o","n","f","i","r","m","e","d">>] >>
            ELSE << >>
    IN  IF weekday(current) < 5 THEN morning \o afternoon ELSE << >>

\* GoogleCalendarService._get_mock_events
_get_mock_events(start_time, end_time) ==
    LET current == ReplaceTime(start_time, 9, 0)
        morning ==
            IF current.hour <= 10
            THEN << [id     |-> <<"m","o","c","k","_","1","_">> \o StrfCompact(current),
                     title  |-> <<"T","e","a","m"," ","S","t","a","n","d","u","p">>,
                     start  |-> isoformat(ReplaceTime(current, 10, current.minute)),
                     end    |-> isoformat(ReplaceTime(current, 10, 30)),
                     status |-> <<"c","o","n","f","i","r","m","e","d">>] >>
            ELSE << >>
        afternoon ==
            IF current.hour <= 15
            THEN << [id     |-> <<"m","o","c","k","_","2","_">> \o StrfCompact(current),
                     title  |-> <<"C","l","i","e","n","t"," ","R","e","v","i","e","w">>,
                     start  |-> isoformat(ReplaceTime(current, 15, current.minute)),
                     end    |-> isoformat(ReplaceTime(current, 16, current.minute)),
                     status |-> <<"c","o","n","f","i","r","m","e","d">>] >>
            ELSE << >>
    IN  IF weekday(current) < 5 THEN morning \o afternoon ELSE << >>

\* GoogleCalendarService.get_events; reply is what the provider does if asked
get_events(service, start_time, end_time, reply) ==
    IF service = "none" THEN _get_mock_events(start_time, end_time)
    ELSE IF reply.kind = "raise" THEN _get_mock_events(start_time, end_time)
    ELSE [i \in 1..Len(reply.items) |-> _format_event(reply.items[i])]

\* GoogleCalendarService.create_event; outcome is what the provider's insert
\* does if asked, id the id it would assign.  The result says whether the
\* call raised (HTTPException 500, whose str() is "500: <detail>") and which
\* event the provider stored.
create_event(service, title, start_time, end_time, description, outcome, id) ==
    LET event == [summary     |-> title,
                  description |-> description,
                  start       |-> [dateTime |-> isoformat(start_time),
                                   timeZone |-> <<"U","T","C">>],
                  end         |-> [dateTime |-> isoformat(end_time),
                                   timeZone |-> <<"U","T","C">>]]
    IN  IF service = "none"
        THEN [raised  |-> FALSE,
              value   |-> [id     |-> <<"m","o","c","k","_","e","v","e","n","t","_">> \o Digits(Timestamp(start_time)),
                           title  |-> title,
                           start  |-> isoformat(start_time),
                           end    |-> isoformat(end_time),
                           status |-> <<"c","o","n","f","i","r","m","e","d">>],
              message |-> << >>,
              stored  |-> << >>]
        ELSE IF outcome = "ok"
        THEN [raised  |-> FALSE,
              value   |-> _format_event(ProviderEvent(id, event)),
              message |-> << >>,
              stored  |-> <<ProviderEvent(id, event)>>]
        ELSE [raised  |-> TRUE,
              value   |-> << >>,
              message |-> <<"5","0","0",":"," ","F","a","i","l","e","d"," ","t","o"," ","c","r","e","a","t","e"," ","e","v","e","n","t",":"," ">> \o ProviderErrorText,
              stored  |-> << >>]

(***************************************************************************)
(* The tools.  Each takes, besides its text argument, what it reads from   *)
(* its environment when it runs: the clock, the gateway's service and what *)
(* the provider answers.  Each returns [text, raised, stored]: the reply,  *)
(* whether an exception was raised (and caught) inside it, and the events  *)
(* the provider stored.                                                    *)
(***************************************************************************)
\* the leading mark of the success text (three non-ASCII characters in the
\* source, kept as one symbol)
BookedMark == <<"[booked]">>

\* the lines check_calendar_availability prints for the events
RECURSIVE EventLines(_)
EventLines(events) ==
    IF events = << >> THEN << >>
    ELSE << <<"-"," ">> \o Head(events).title \o <<":"," ">>
            \o StrfTime(ParseDateTime(Head(events).start)) \o <<" ","-"," ">>
            \o StrfTime(ParseDateTime(Head(events).end)) >>
         \o EventLines(Tail(events))

\* check_calendar_availability
check_calendar_availability(date_range, now, service, reply) ==
    LET days_ahead == 4 - weekday(now)
        start_date ==
            IF Contains(Lower(date_range), <<"t","o","m","o","r","r","o","w">>) THEN AddDays(now, 1)
            ELSE IF Contains(Lower(date_range), <<"t","o","d","a","y">>) THEN now
            ELSE IF Contains(Lower(date_range), <<"f","r","i","d","a","y">>)
                 THEN AddDays(now, IF days_ahead <= 0 THEN days_ahead + 7
                                   ELSE days_ahead)
            ELSE AddDays(now, 1)
        end_date == AddHours(start_date, 12)
        events == get_events(service, start_date, end_date, reply)
        unparsable ==
            \E i \in 1..Len(events) :
                ParseRaises(events[i].start) \/ ParseRaises(events[i].end)
    IN  IF events = << >>
        THEN [text   |-> <<"N","o"," ","e","x","i","s","t","i","n","g"," ","e","v","e","n","t","s"," ","f","o","u","n","d"," ","f","o","r"," ">> \o StrfDate(start_date)
                         \o <<"."," ","Y","o","u"," ","h","a","v","e"," ","f","u","l","l"," ","a","v","a","i","l","a","b","i","l","i","t","y","!">>,
              raised |-> FALSE, stored |-> << >>]
        ELSE IF unparsable
        THEN [text   |-> <<"E","r","r","o","r"," ","c","h","e","c","k","i","n","g"," ","c","a","l","e","n","d","a","r",":"," ">> \o ParseErrorText,
              raised |-> TRUE, stored |-> << >>]
        ELSE [text   |-> <<"E","x","i","s","t","i","n","g"," ","e","v","e","n","t","s"," ","f","o","r"," ">> \o StrfDate(start_date) \o <<":","\n">>
                         \o Join(<<"\n">>, EventLines(events)),
              raised |-> FALSE, stored |-> << >>]

\* suggest_time_slots
suggest_time_slots(preferences, now) ==
    LET base_date == AddDays(now, 1)
        slots ==
            IF Contains(Lower(preferences), <<"a","f","t","e","r","n","o","o","n">>)
            THEN << ReplaceTime(base_date, 14, 0), ReplaceTime(base_date, 15, 0),
                    ReplaceTime(base_date, 16, 0) >>
            ELSE IF Contains(Lower(preferences), <<"m","o","r","n","i","n","g">>)
            THEN << ReplaceTime(base_date, 9, 0), ReplaceTime(base_date, 10, 0),
                    ReplaceTime(base_date, 11, 0) >>
            ELSE << ReplaceTime(base_date, 11, 0), ReplaceTime(base_date, 14, 0),
                    ReplaceTime(base_date, 16, 0) >>
        slot_strings ==
            [i \in 1..Len(slots) |->
                Digits(i) \o <<"."," ">> \o StrfDate(slots[i]) \o <<" ","a","t"," ">>
                \o StrfTime(slots[i])]
    IN  [text   |-> <<"H","e","r","e"," ","a","r","e"," ","s","o","m","e"," ","a","v","a","i","l","a","b","l","e"," ","t","i","m","e"," ","s","l","o","t","s",":","\n">>
                    \o Join(<<"\n">>, slot_strings),
         raised |-> FALSE, stored |-> << >>]

\* faulty variant: a failed insert reported like a booking
book_appointment_Swallow(details, now, service, outcome, id) ==
    LET start_time == ReplaceTime(AddDays(now, 1), 14, 0)
    IN  [text   |-> BookedMark \o <<" ","A","p","p","o","i","n","t","m","e","n","t"," ","b","o","o","k","e","d"," ","s","u","c","c","e","s","s","f","u","l","l","y","!","\n","T","i","t","l","e",":"," ">>
                    \o <<"S","c","h","e","d","u","l","e","d"," ","M","e","e","t","i","n","g">> \o <<"\n","T","i","m","e",":"," ">> \o StrfDate(start_time),
         raised |-> service = "live" /\ outcome = "raise",
         stored |-> << >>]

\* book_appointment
book_appointment(details, now, service, outcome, id) ==
    LET tomorrow   == AddDays(now, 1)
        start_time == ReplaceTime(tomorrow, 14, 0)
        end_time   == AddHours(start_time, 1)
        created    == create_event(service, <<"S","c","h","e","d","u","l","e","d"," ","M","e","e","t","i","n","g">>, start_time,
                                   end_time,
                                   <<"M","e","e","t","i","n","g"," ","b","o","o","k","e","d"," ","t","h","r","o","u","g","h"," ","T","a","i","l","o","r","T","a","l","k"," ","a","g","e","n","t">>,
                                   outcome, id)
    IN  IF created.raised
        THEN [text   |-> <<"E","r","r","o","r"," ","b","o","o","k","i","n","g"," ","a","p","p","o","i","n","t","m","e","n","t",":"," ">> \o created.message,
              raised |-> TRUE, stored |-> << >>]
        ELSE [text   |-> BookedMark \o <<" ","A","p","p","o","i","n","t","m","e","n","t"," ","b","o","o","k","e","d"," ","s","u","c","c","e","s","s","f","u","l","l","y","!","\n","T","i","t","l","e",":"," ">>
                         \o created.value.title \o <<"\n","T","i","m","e",":"," ">>
                         \o StrfDate(start_time) \o <<" ","a","t"," ">> \o StrfTime(start_time)
                         \o <<" ","-"," ">> \o StrfTime(end_time) \o <<"\n","E","v","e","n","t"," ","I","D",":"," ">>
                         \o created.value.id,
              raised |-> FALSE, stored |-> created.stored]

(***************************************************************************)
(* The graph: AgentState, the agent node (call_model), the conditional     *)
(* edge (should_continue) and the action node (call_tool).                 *)
(***************************************************************************)
HumanMessage(content) == [type |-> "human", content |-> content]

\* AIMessage(content=...): no tool call is ever attached
AIMessage(content) == [type |-> "ai", content |-> content, tool_calls |-> << >>]

\* {**d, key: value}
Put(d, key, value) ==
    [k \in DOMAIN d \cup {key} |-> IF k = key THEN value ELSE d[k]]

BookingWords      == { <<"s","c","h","e","d","u","l","e">>, <<"b","o","o","k">>, <<"a","p","p","o","i","n","t","m","e","n","t">>, <<"m","e","e","t","i","n","g">> }
AvailabilityWords == { <<"a","v","a","i","l","a","b","l","e">>, <<"f","r","e","e">>, <<"c","h","e","c","k">> }
ConfirmationWords == { <<"c","o","n","f","i","r","m">>, <<"y","e","s">>, <<"o","k","a","y">> }

\* faulty variant: the intent detection without .lower()
DetectIntent_CaseSensitive(last_message) ==
    IF AnyIn(BookingWords, last_message) THEN "booking"
    ELSE IF AnyIn(AvailabilityWords, last_message) THEN "availability"
    ELSE IF AnyIn(ConfirmationWords, last_message) THEN "confirmation"
    ELSE "unknown"

\* the intent detection of call_model
DetectIntent(last_message) ==
    IF AnyIn(BookingWords, Lower(last_message)) THEN "booking"
    ELSE IF AnyIn(AvailabilityWords, Lower(last_message)) THEN "availability"
    ELSE IF AnyIn(ConfirmationWords, Lower(last_message)) THEN "confirmation"
    ELSE "unknown"

\* the reply call_model writes for an intent
ModelResponse(intent, last_message) ==
    IF intent = "booking"
    THEN IF Contains(Lower(last_message), <<"t","o","m","o","r","r","o","w"," ","a","f","t","e","r","n","o","o","n">>)
         THEN <<"I","'","d"," ","b","e"," ","h","a","p","p","y"," ","t","o"," ","h","e","l","p"," ","y","o","u"," ","s","c","h","e","d","u","l","e"," ","a"," ","c","a","l","l"," ","f","o","r"," ","t","o","m","o","r","r","o","w"," ","a","f","t","e","r","n","o","o","n","!"," ","L","e","t"," ","m","e"," ","c","h","e","c","k"," ","w","h","a","t"," ","t","i","m","e","s"," ","a","r","e"," ","a","v","a","i","l","a","b","l","e",".">>
         ELSE IF Contains(Lower(last_message), <<"f","r","i","d","a","y">>)
         THEN <<"L","e","t"," ","m","e"," ","c","h","e","c","k"," ","y","o","u","r"," ","a","v","a","i","l","a","b","i","l","i","t","y"," ","f","o","r"," ","t","h","i","s"," ","F","r","i","d","a","y",".">>
         ELSE <<"I","'","l","l"," ","h","e","l","p"," ","y","o","u"," ","s","c","h","e","d","u","l","e"," ","t","h","a","t"," ","m","e","e","t","i","n","g","."," ","C","o","u","l","d"," ","y","o","u"," ","t","e","l","l"," ","m","e"," ","y","o","u","r"," ","p","r","e","f","e","r","r","e","d"," ","d","a","t","e"," ","a","n","d"," ","t","i","m","e","?">>
    ELSE IF intent = "availability"
    THEN <<"L","e","t"," ","m","e"," ","c","h","e","c","k"," ","y","o","u","r"," ","c","a","l","e","n","d","a","r"," ","a","v","a","i","l","a","b","i","l","i","t","y",".">>
    ELSE IF intent = "confirmation"
    THEN <<"G","r","e","a","t","!"," ","L","e","t"," ","m","e"," ","b","o","o","k"," ","t","h","a","t"," ","a","p","p","o","i","n","t","m","e","n","t"," ","f","o","r"," ","y","o","u",".">>
    ELSE <<"H","e","l","l","o","!"," ","I","'","m"," ","h","e","r","e"," ","t","o"," ","h","e","l","p"," ","y","o","u"," ","s","c","h","e","d","u","l","e"," ","a","p","p","o","i","n","t","m","e","n","t","s","."," ","W","h","a","t"," ","w","o","u","l","d"," ","y","o","u"," ","l","i","k","e"," ","t","o"," ","b","o","o","k","?">>

\* call_model: the update the agent node returns
call_model(state) ==
    LET messages     == state.messages
        last_message == IF messages # << >> THEN messages[Len(messages)].content
                        ELSE << >>
        intent       == DetectIntent(last_message)
    IN  Put(Put(state, "messages", <<AIMessage(ModelResponse(intent, last_message))>>),
            "user_intent", intent)

\* faulty variant: the edge decided by the intent instead of the reply's tool calls
should_continue_ByIntent(state) ==
    IF Len(state.messages) = 2 /\ Get(state, "user_intent", "unknown") # "unknown"
    THEN "continue"
    ELSE "end"

\* should_continue
should_continue(state) ==
    LET last_message == state.messages[Len(state.messages)]
    IN  IF "tool_calls" \in DOMAIN last_message /\ last_message.tool_calls # << >>
        THEN "continue"
        ELSE "end"

\* call_tool: the update the action node returns, with what the tool it ran
\* reports (tool is "" when none ran)
call_tool(state, now, service, reply, outcome, id) ==
    LET intent       == Get(state, "user_intent", "")
        last_message == IF Len(state.messages) > 1
                        THEN state.messages[Len(state.messages) - 1].content
                        ELSE << >>
        suggesting   == intent = "booking"
                        /\ ~Contains(Get(state, "step", << >>), <<"s","u","g","g","e","s","t">>)
        tool         == IF intent = "availability" THEN "check_calendar_availability"
                        ELSE IF suggesting THEN "suggest_time_slots"
                        ELSE IF intent = "confirmation" THEN "book_appointment"
                        ELSE ""
        result ==
            IF intent = "availability"
            THEN check_calendar_availability(last_message, now, service, reply)
            ELSE IF suggesting
            THEN suggest_time_slots(last_message, now)
            ELSE IF intent = "confirmation"
            THEN book_appointment(last_message, now, service, outcome, id)
            ELSE [text   |-> <<"I","'","m"," ","r","e","a","d","y"," ","t","o"," ","h","e","l","p"," ","w","i","t","h"," ","y","o","u","r"," ","s","c","h","e","d","u","l","i","n","g"," ","n","e","e","d","s","!">>,
                  raised |-> FALSE, stored |-> << >>]
        stepped == IF suggesting THEN Put(state, "step", <<"s","u","g","g","e","s","t","e","d">>) ELSE state
    IN  [update |-> Put(stepped, "messages", <<AIMessage(result.text)>>),
         tool   |-> tool,
         raised |-> result.raised,
         stored |-> result.stored]

\* how the graph merges a node's update into the state: messages are added
\* (operator.add), every other key is overwritten
Merge(state, update) ==
    [k \in DOMAIN state \cup DOMAIN update |->
        IF k = "messages" THEN state.messages \o update.messages
        ELSE IF k \in DOMAIN update THEN update[k]
        ELSE state[k]]

(***************************************************************************)
(* The completion fallback: call_groq_ai.                                  *)
(***************************************************************************)
\* what the completion service does on one call: requests.post raises, the
\* status is an error (raise_for_status raises), the body is no JSON, the
\* JSON has no "choices", an empty "choices", a choice without "message", or
\* a completion
GroqOutcomes ==
    {"unreachable", "http_error", "not_json", "no_choices", "empty_choices",
     "malformed_choice", "completion"}

\* the text of the completion the service returns
CompletionContent == <<" "," ","I","t"," ","i","s"," ","s","u","n","n","y"," ","t","o","d","a","y",".","\n">>

WhiteSpace == {" ", "\n", "\t"}

\* str.strip()
RECURSIVE Strip(_)
Strip(text) ==
    IF text = << >> THEN text
    ELSE IF Head(text) \in WhiteSpace THEN Strip(Tail(text))
    ELSE IF text[Len(text)] \in WhiteSpace THEN Strip(SubSeq(text, 1, Len(text) - 1))
    ELSE text

KeyNotFoundText ==
    <<"G","R","O","Q"," ","A","P","I"," ","k","e","y"," ","n","o","t"," ","f","o","u","n","d","."," ","P","l","e","a","s","e"," ","s","e","t"," ","G","R","O","Q","_","A","P","I","_","K","E","Y"," ","i","n"," ","y","o","u","r"," ",".","e","n","v"," ","f","i","l","e",".">>
NotUnderstoodText ==
    <<"S","o","r","r","y",","," ","I"," ","c","o","u","l","d","n","'","t"," ","u","n","d","e","r","s","t","a","n","d"," ","t","h","e"," ","r","e","s","p","o","n","s","e"," ","f","r","o","m"," ","t","h","e"," ","A","I"," ","m","o","d","e","l",".">>
NoResponseText ==
    <<"S","o","r","r","y",","," ","I"," ","c","o","u","l","d","n","'","t"," ","g","e","t"," ","a"," ","r","e","s","p","o","n","s","e"," ","f","r","o","m"," ","t","h","e"," ","A","I"," ","m","o","d","e","l","."," ","P","l","e","a","s","e"," ","t","r","y"," ","a","g","a","i","n"," ","l","a","t","e","r",".">>

\* faulty variant: call_groq_ai without the test of the key
call_groq_ai_NoKeyTest(prompt, has_key, outcome) ==
    IF outcome \in {"unreachable", "http_error", "not_json", "malformed_choice"}
    THEN <<"S","o","r","r","y",","," ","I"," ","c","o","u","l","d","n","'","t"," ","g","e","t"," ","a"," ","r","e","s","p","o","n","s","e"," ","f","r","o","m"," ","t","h","e"," ","A","I"," ","m","o","d","e","l","."," ","P","l","e","a","s","e"," ","t","r","y"," ","a","g","a","i","n"," ","l","a","t","e","r",".">>
    ELSE IF outcome = "completion" THEN <<"I","t"," ","i","s"," ","s","u","n","n","y"," ","t","o","d","a","y",".">>
    ELSE <<"S","o","r","r","y",","," ","I"," ","c","o","u","l","d","n","'","t"," ","u","n","d","e","r","s","t","a","n","d"," ","t","h","e"," ","r","e","s","p","o","n","s","e"," ","f","r","o","m"," ","t","h","e"," ","A","I"," ","m","o","d","e","l",".">>

\* call_groq_ai; has_key says whether os.getenv finds GROQ_API_KEY
call_groq_ai(prompt, has_key, outcome) ==
    IF ~has_key THEN KeyNotFoundText
    ELSE IF outcome \in {"unreachable", "http_error", "not_json", "malformed_choice"}
    THEN NoResponseText
    ELSE IF outcome = "completion" THEN Strip(CompletionContent)
    ELSE NotUnderstoodText

(***************************************************************************)
(* The process: one /chat request is handled at a time (the handler is a   *)
(* coroutine that never awaits, so the event loop runs it to its end       *)
(* before it starts the next).                                             *)
(***************************************************************************)
VARIABLES
    pc,              \* where the handler is: idle, graph, groq, done, or unit
    request,         \* the ChatMessage being handled
    state,           \* the AgentState of the graph run
    node,            \* the graph node to run next: agent, action or END
    reply,           \* the ChatResponse of the last finished request
    sessions,        \* the module's session storage (a dict)
    service,         \* calendar_service.service: none or live
    provider,        \* what the provider's insert does when asked
    provider_events, \* the events the live provider has stored
    served,          \* how many requests have been taken up
    path,            \* the nodes the current graph run has run, in order
    tools_run,       \* the tools the current run has executed, in order
    tool_raised,     \* whether the last tool executed caught an exception
    fallback,        \* the prompt and outcome of the current fallback call
    suggest_runs,    \* per session id, how often suggest_time_slots has run
    day_turns,       \* per session id, finished booking turns naming a day
    listed           \* the last direct call of get_events and its result

vars == << pc, request, state, node, reply, sessions, service, provider,
           provider_events, served, path, tools_run, tool_raised,
           fallback, suggest_runs, day_turns, listed >>

\* faulty variant: the keyword list without the confirmation words
keywords_NoConfirmation ==
    { <<"s","c","h","e","d","u","l","e">>, <<"b","o","o","k">>, <<"a","p","p","o","i","n","t","m","e","n","t">>, <<"m","e","e","t","i","n","g">>, <<"a","v","a","i","l","a","b","l","e">>,
      <<"f","r","e","e">>, <<"c","h","e","c","k">> }

\* the keywords of chat_endpoint
keywords ==
    { <<"s","c","h","e","d","u","l","e">>, <<"b","o","o","k">>, <<"a","p","p","o","i","n","t","m","e","n","t">>, <<"m","e","e","t","i","n","g">>, <<"a","v","a","i","l","a","b","l","e">>,
      <<"f","r","e","e">>, <<"c","h","e","c","k">>, <<"c","o","n","f","i","r","m">>, <<"y","e","s">>, <<"o","k","a","y">> }

NoRequest == [message |-> << >>, session_id |-> ""]
NoReply == [response |-> NoneValue, booking_confirmed |-> FALSE]
NoFallback == [prompt |-> NoneValue, has_key |-> FALSE, outcome |-> ""]
EmptyState == [messages |-> << >>]
NoListed == [called |-> FALSE, start |-> << >>, end |-> << >>, events |-> << >>]

\* the state after the module is loaded: the gateway has set up its service,
\* the environment is read, no session is stored
Init ==
    /\ pc = "idle"
    /\ request = NoRequest
    /\ state = EmptyState
    /\ node = "END"
    /\ reply = NoReply
    /\ sessions = << >>
    /\ service \in Services
    /\ provider \in IF service = "live" THEN InsertOutcomes ELSE {"ok"}
    /\ provider_events = << >>
    /\ served = 0
    /\ path = << >>
    /\ tools_run = << >>
    /\ tool_raised = FALSE
    /\ fallback = NoFallback
    /\ suggest_runs = [s \in SessionIds |-> 0]
    /\ day_turns = [s \in SessionIds |-> 0]
    /\ listed = NoListed

\* chat_endpoint up to the routing test: the graph is invoked on a state
\* that holds the message alone, or the fallback is chosen
\* chat_endpoint as it would be with the session mapping in use: the message
\* is appended to the session's turns and the request is routed on every
\* turn of the session
ChatRequest_SessionHistory ==
    /\ pc = "idle"
    /\ served < MaxRequests
    /\ served' = served + 1
    /\ reply' = NoReply
    /\ path' = << >>
    /\ tools_run' = << >>
    /\ tool_raised' = FALSE
    /\ fallback' = NoFallback
    /\ \E message \in Messages, session_id \in SessionIds :
         \E turns \in {Append(Get(sessions, session_id, [turns |-> << >>]).turns,
                              message)} :
             /\ request' = [message |-> message, session_id |-> session_id]
             /\ sessions' = Put(sessions, session_id, [turns |-> turns])
             /\ IF \E i \in 1..Len(turns) : AnyIn(keywords, Lower(turns[i]))
                THEN /\ pc' = "graph"
                     /\ state' = Merge(EmptyState,
                                       [messages |-> <<HumanMessage(message)>>])
                     /\ node' = "agent"
                ELSE /\ pc' = "groq"
                     /\ state' = EmptyState
                     /\ node' = "END"
    /\ UNCHANGED << service, provider, provider_events,
                    suggest_runs, day_turns, listed >>

ChatRequest ==
    /\ pc = "idle"
    /\ served < MaxRequests
    /\ served' = served + 1
    /\ reply' = NoReply
    /\ path' = << >>
    /\ tools_run' = << >>
    /\ tool_raised' = FALSE
    /\ fallback' = NoFallback
    /\ \E message \in Messages, session_id \in SessionIds :
         /\ request' = [message |-> message, session_id |-> session_id]
         /\ IF AnyIn(keywords, Lower(message))
            THEN /\ pc' = "graph"
                 /\ state' = Merge(EmptyState,
                                   [messages |-> <<HumanMessage(message)>>])
                 /\ node' = "agent"
            ELSE /\ pc' = "groq"
                 /\ state' = EmptyState
                 /\ node' = "END"
    /\ UNCHANGED << sessions, service, provider, provider_events,
                    suggest_runs, day_turns, listed >>

\* the list replies the provider can give now
RepliesNow == IF provider = "raise" THEN {[kind |-> "raise", items |-> << >>]}
              ELSE ListReplies(provider_events) \ {[kind |-> "raise", items |-> << >>]}

\* one step of app_graph.invoke: the node to run next runs, its update is
\* merged into the state, and the edge out of it names the next node
GraphStep ==
    /\ pc \in {"graph", "unit"}
    /\ node \in {"agent", "action"}
    /\ path' = Append(path, node)
    /\ IF node = "agent"
       THEN /\ \E merged \in {Merge(state, call_model(state))} :
                   /\ state' = merged
                   /\ node' = IF should_continue(merged) = "continue"
                              THEN "action" ELSE "END"
            /\ UNCHANGED << provider_events, tools_run, tool_raised, suggest_runs >>
       ELSE \E now \in Nows, list_reply \in RepliesNow :
                \E ran \in {call_tool(state, now, service, list_reply, provider,
                                      ProviderId(Len(provider_events) + 1))} :
                    /\ state' = Merge(state, ran.update)
                    /\ node' = "agent"
                    /\ provider_events' = provider_events \o ran.stored
                    /\ tools_run' = IF ran.tool = "" THEN tools_run
                                    ELSE Append(tools_run, ran.tool)
                    /\ tool_raised' = ran.raised
                    /\ suggest_runs' =
                         IF ran.tool = "suggest_time_slots"
                         THEN [suggest_runs EXCEPT ![request.session_id] = @ + 1]
                         ELSE suggest_runs
    /\ UNCHANGED << pc, request, reply, sessions, service, provider,
                    served, fallback, day_turns, listed >>

\* whether a message names one of the relative days call_model knows
NamesDay(message) ==
    \/ Contains(Lower(message), <<"t","o","m","o","r","r","o","w"," ","a","f","t","e","r","n","o","o","n">>)
    \/ Contains(Lower(message), <<"f","r","i","d","a","y">>)

\* chat_endpoint after app_graph.invoke has returned: the response is built
\* from the result
GraphReturn ==
    /\ pc = "graph"
    /\ node = "END"
    /\ reply' =
         [response |->
              IF "messages" \in DOMAIN state /\ state.messages # << >>
              THEN state.messages[Len(state.messages)].content
              ELSE <<"S","o","r","r","y",","," ","I"," ","c","o","u","l","d","n","'","t"," ","p","r","o","c","e","s","s"," ","y","o","u","r"," ","r","e","q","u","e","s","t",".">>,
          booking_confirmed |-> Get(state, "user_intent", NoneValue) = "confirmation"]
    /\ pc' = "done"
    /\ day_turns' =
         IF DetectIntent(request.message) = "booking" /\ NamesDay(request.message)
         THEN [day_turns EXCEPT ![request.session_id] = @ + 1]
         ELSE day_turns
    /\ UNCHANGED << request, state, node, sessions, service, provider,
                    provider_events, served, path, tools_run, tool_raised,
                    fallback, suggest_runs, listed >>

\* chat_endpoint on the other branch: the message goes to call_groq_ai
GroqFallback ==
    /\ pc = "groq"
    /\ \E has_key \in BOOLEAN :
         \E outcome \in IF has_key THEN GroqOutcomes ELSE {""} :
             /\ fallback' = [prompt |-> request.message, has_key |-> has_key,
                             outcome |-> outcome]
             /\ reply' = [response |-> call_groq_ai(request.message, has_key, outcome),
                          booking_confirmed |-> FALSE]
    /\ pc' = "done"
    /\ UNCHANGED << request, state, node, sessions, service, provider,
                    provider_events, served, path, tools_run, tool_raised,
                    suggest_runs, day_turns, listed >>

\* the response has been sent and the handler's locals are gone: the
\* process waits for the next request
Respond ==
    /\ pc = "done"
    /\ pc' = "idle"
    /\ request' = NoRequest
    /\ state' = EmptyState
    /\ reply' = NoReply
    /\ path' = << >>
    /\ tools_run' = << >>
    /\ tool_raised' = FALSE
    /\ fallback' = NoFallback
    /\ UNCHANGED << node, sessions, service, provider, provider_events, served,
                    suggest_runs, day_turns, listed >>

Next ==
    \/ ChatRequest
    \/ GraphStep
    \/ GraphReturn
    \/ GroqFallback
    \/ Respond

Spec == Init /\ [][Next]_vars

(***************************************************************************)
(* The units on their own.  UnitSpec applies the functions of the module   *)
(* directly, as a test of each would: the agent node to any utterance, the *)
(* action node to the state the agent node returned (followed by the       *)
(* graph's edge back to the agent), and the gateway's get_events to any    *)
(* start time.  One behaviour is one such application.                     *)
(***************************************************************************)
\* an event the provider stored for an earlier booking
EarlierEvent ==
    ProviderEvent(ProviderId(1),
                  [summary |-> <<"S","c","h","e","d","u","l","e","d"," ","M","e","e","t","i","n","g">>,
                   start   |-> [dateTime |-> isoformat([day |-> 1, hour |-> 14, minute |-> 0]),
                                timeZone |-> <<"U","T","C">>],
                   end     |-> [dateTime |-> isoformat([day |-> 1, hour |-> 15, minute |-> 0]),
                                timeZone |-> <<"U","T","C">>]])

UnitInit ==
    /\ pc = "unit"
    /\ request = NoRequest
    /\ state = EmptyState
    /\ node = "END"
    /\ reply = NoReply
    /\ sessions = << >>
    /\ service \in Services
    /\ provider \in IF service = "live" THEN InsertOutcomes ELSE {"ok"}
    /\ provider_events \in IF service = "live" /\ provider = "ok"
                           THEN {<< >>, <<EarlierEvent>>} ELSE {<< >>}
    /\ served = 0
    /\ path = << >>
    /\ tools_run = << >>
    /\ tool_raised = FALSE
    /\ fallback = NoFallback
    /\ suggest_runs = [s \in SessionIds |-> 0]
    /\ day_turns = [s \in SessionIds |-> 0]
    /\ listed = NoListed

\* nothing has been applied yet
Untouched == pc = "unit" /\ request = NoRequest /\ ~listed.called

\* the graph is entered at the agent node on a state holding the utterance
UnitInvoke ==
    /\ Untouched
    /\ \E text \in Utterances :
         /\ request' = [message |-> text, session_id |-> "s1"]
         /\ state' = Merge(EmptyState, [messages |-> <<HumanMessage(text)>>])
    /\ node' = "agent"
    /\ served' = served + 1
    /\ UNCHANGED << pc, reply, sessions, service, provider, provider_events,
                    path, tools_run, tool_raised, fallback, suggest_runs,
                    day_turns, listed >>

\* the action node is run on the state the agent node returned
UnitCallTool ==
    /\ pc = "unit"
    /\ node = "END"
    /\ path = <<"agent">>
    /\ request.message \in Messages
    /\ node' = "action"
    /\ UNCHANGED << pc, request, state, reply, sessions, service, provider,
                    provider_events, served, path, tools_run, tool_raised,
                    fallback, suggest_runs, day_turns, listed >>

\* calendar_service.get_events(start_time, start_time + 12 hours)
UnitGetEvents ==
    /\ Untouched
    /\ \E start_time \in Nows, list_reply \in RepliesNow :
         listed' = [called |-> TRUE,
                    start  |-> start_time,
                    end    |-> AddHours(start_time, 12),
                    events |-> get_events(service, start_time,
                                          AddHours(start_time, 12), list_reply)]
    /\ UNCHANGED << pc, request, state, node, reply, sessions, service, provider,
                    provider_events, served, path, tools_run, tool_raised,
                    fallback, suggest_runs, day_turns >>

UnitNext ==
    \/ UnitInvoke
    \/ GraphStep
    \/ UnitCallTool
    \/ UnitGetEvents

UnitSpec == UnitInit /\ [][UnitNext]_vars

(***************************************************************************)
(* The claims.  What the specification says is written here in its own     *)
(* terms: its keyword lists, its policy table, its reply texts.            *)
(***************************************************************************)
\* text holds word, whatever the case of its letters
Mentions(text, word) ==
    \E i \in 1..(Len(text) - Len(word) + 1) :
        Lower(SubSeq(text, i, i + Len(word) - 1)) = word

MentionsAny(text, words) == \E w \in words : Mentions(text, w)

StartsWith(text, prefix) ==
    Len(text) >= Len(prefix) /\ SubSeq(text, 1, Len(prefix)) = prefix

\* the keyword sets of the Intent Classifier
SpecBooking      == { <<"s","c","h","e","d","u","l","e">>, <<"b","o","o","k">>, <<"a","p","p","o","i","n","t","m","e","n","t">>, <<"m","e","e","t","i","n","g">> }
SpecAvailability == { <<"a","v","a","i","l","a","b","l","e">>, <<"f","r","e","e">>, <<"c","h","e","c","k">> }
SpecConfirmation == { <<"c","o","n","f","i","r","m">>, <<"y","e","s">>, <<"o","k","a","y">> }

\* classify: first match wins in the order booking, availability, confirmation
SpecClassify(text) ==
    CASE MentionsAny(text, SpecBooking)      -> "booking"
      [] ~MentionsAny(text, SpecBooking)
         /\ MentionsAny(text, SpecAvailability) -> "availability"
      [] ~MentionsAny(text, SpecBooking)
         /\ ~MentionsAny(text, SpecAvailability)
         /\ MentionsAny(text, SpecConfirmation) -> "confirmation"
      [] OTHER -> "unknown"

\* the relative days an utterance can mention
SpecMentionsDay(text) ==
    Mentions(text, <<"t","o","m","o","r","r","o","w"," ","a","f","t","e","r","n","o","o","n">>) \/ Mentions(text, <<"f","r","i","d","a","y">>)

\* the tool the policy table asks for ("" for none)
SpecPolicyTool(text, already_suggested) ==
    CASE SpecClassify(text) = "availability" -> "listEvents"
      [] SpecClassify(text) = "confirmation" -> "createEvent"
      [] SpecClassify(text) = "booking" /\ SpecMentionsDay(text)
         /\ ~already_suggested -> "suggestSlots"
      [] OTHER -> ""

\* the last reply of the Dialogue Turn Processor carries a tool request
ToolRequested(st) ==
    /\ st.messages # << >>
    /\ "tool_calls" \in DOMAIN st.messages[Len(st.messages)]
    /\ st.messages[Len(st.messages)].tool_calls # << >>

\* the request in hand went to the Turn Orchestrator / to the fallback
ViaGraph == pc = "graph" \/ (pc = "done" /\ path # << >>)
ViaFallback == pc = "groq" \/ (pc = "done" /\ path = << >>)

\* C1: a request whose message is classified as confirmation is answered
\* only after the createEvent tool has run: the response is the booking
\* confirmation with the created event's id, and bookingConfirmed is true.
C1_ConfirmationBooksThenReplies ==
    (pc = "done" /\ ViaGraph /\ SpecClassify(request.message) = "confirmation")
        => /\ \E i \in 1..Len(tools_run) : tools_run[i] = "book_appointment"
           /\ \E i \in 1..Len(reply.response) :
                  StartsWith(SubSeq(reply.response, i, Len(reply.response)),
                             <<"E","v","e","n","t"," ","I","D",":"," ">>)
           /\ reply.booking_confirmed

\* C2: after the Dialogue Turn Processor has handled the inbound message,
\* its reply carries a tool request exactly when the policy table names a
\* tool for the message: listEvents for availability, createEvent for
\* confirmation, suggestSlots for a booking that mentions a relative day and
\* has had no suggestion yet, none otherwise.
C2_ToolRequestPerPolicy ==
    (pc = "graph" /\ path = <<"agent">>)
        => (ToolRequested(state)
              <=> SpecPolicyTool(request.message,
                                 suggest_runs[request.session_id] > 0) # "")

\* C3: whenever the agent node has classified a text, the intent it stored
\* is the one the first-match-wins, case-insensitive keyword test gives for
\* that text: booking, else availability, else confirmation, else unknown.
C3_ClassifyFirstMatchWins ==
    (path # << >> /\ path[Len(path)] = "agent")
        => state.user_intent
             = SpecClassify(state.messages[Len(state.messages) - 1].content)

\* C3 witness: an utterance with an availability and a booking keyword has
\* been classified, and booking won.
C3_Witness ==
    /\ path = <<"agent">>
    /\ request.message = <<"c","h","e","c","k"," ","b","o","o","k">>
    /\ state.user_intent = "booking"

\* C4: a request goes to the Turn Orchestrator iff its message holds a
\* scheduling keyword; the orchestrator starts from a state holding that
\* message alone; its answer has bookingConfirmed true iff the final intent
\* is confirmation; every other request goes to the completion fallback with
\* the message as the prompt and is answered with bookingConfirmed false.
C4_Routing ==
    /\ ViaGraph =>
         MentionsAny(request.message,
                     SpecBooking \cup SpecAvailability \cup SpecConfirmation)
    /\ ViaFallback =>
         ~MentionsAny(request.message,
                      SpecBooking \cup SpecAvailability \cup SpecConfirmation)
    /\ (pc = "graph" /\ path = << >>) =>
         state = [messages |-> <<HumanMessage(request.message)>>]
    /\ (pc = "done" /\ ViaGraph) =>
         (reply.booking_confirmed <=> state.user_intent = "confirmation")
    /\ (pc = "done" /\ ViaFallback) =>
         (fallback.prompt = request.message /\ ~reply.booking_confirmed)

\* C4 witness: a request with a keyword has been answered by the
\* orchestrator with bookingConfirmed true.
C4_Witness ==
    pc = "done" /\ ViaGraph /\ reply.booking_confirmed

\* how often the current run has entered ACTION
ActionEntries(p) == Cardinality({i \in 1..Len(p) : p[i] = "action"})

\* C5: a run starts in AGENT; AGENT is left for ACTION iff the reply just
\* written carries a tool request and for DONE iff it carries none; ACTION
\* is left for AGENT; DONE is left by no step of the run; and ACTION is
\* entered at most once in a run.
C5_Transitions ==
    [][ /\ (pc = "idle" /\ pc' = "graph") => node' = "agent"
        /\ node = "agent" =>
              \/ node' = "action" /\ ToolRequested(state')
              \/ node' = "END" /\ ~ToolRequested(state')
        /\ node = "action" => node' = "agent"
        /\ (node = "END" /\ served' = served) => node' = "END"
        /\ ActionEntries(path') <= 1 ]_vars

\* C5 witness: a run has gone from AGENT to DONE.
C5_Witness ==
    pc = "graph" /\ path = <<"agent">> /\ node = "END"

\* the "Error <doing X>: " a tool's reply opens with when it has failed
SpecErrorPrefix(tool) ==
    CASE tool = "check_calendar_availability" -> <<"E","r","r","o","r"," ","c","h","e","c","k","i","n","g"," ","c","a","l","e","n","d","a","r",":"," ">>
      [] tool = "suggest_time_slots"          -> <<"E","r","r","o","r"," ","s","u","g","g","e","s","t","i","n","g"," ","s","l","o","t","s",":"," ">>
      [] tool = "book_appointment"            -> <<"E","r","r","o","r"," ","b","o","o","k","i","n","g"," ","a","p","p","o","i","n","t","m","e","n","t",":"," ">>

\* the reply the action node added to the state
ToolReply == state.messages[3].content

\* C6: when an exception was raised inside the tool the action node ran (as
\* it is whenever book_appointment meets a live provider whose insert
\* fails), the tool's reply is "Error <doing X>: <message>", and the run goes
\* on to AGENT and from there to DONE: ACTION is not entered again.
C6_ToolFailureBecomesReply ==
    /\ Len(path) <= 3
    /\ (Len(path) >= 2 /\ tools_run = <<"book_appointment">>
        /\ service = "live" /\ provider = "raise") => tool_raised
    /\ tool_raised =>
         /\ Len(tools_run) = 1
         /\ StartsWith(ToolReply, SpecErrorPrefix(tools_run[1]))
         /\ Len(ToolReply) > Len(SpecErrorPrefix(tools_run[1]))
         /\ node = (IF Len(path) = 2 THEN "agent" ELSE "END")

\* C6 witness: a run whose tool failed has reached DONE.
C6_Witness ==
    /\ tool_raised
    /\ tools_run = <<"book_appointment">>
    /\ path = <<"agent", "action", "agent">>
    /\ node = "END"

C8_FallbackNeverFails ==
    /\ pc = "groq" => ENABLED GroqFallback
    /\ (pc = "done" /\ ViaFallback) =>
         /\ reply.response # NoneValue
         /\ ~reply.booking_confirmed
         /\ ~fallback.has_key =>
              reply.response
                = <<"G","R","O","Q"," ","A","P","I"," ","k","e","y"," ","n","o","t"," ","f","o","u","n","d","."," ","P","l","e","a","s","e"," ","s","e","t"," ","G","R","O","Q","_","A","P","I","_","K","E","Y"," ","i","n"," ","y","o","u","r"," ",".","e","n","v"," ","f","i","l","e",".">>
         /\ (fallback.has_key
             /\ fallback.outcome \in {"unreachable", "http_error", "not_json",
                                      "no_choices", "empty_choices"}) =>
              /\ StartsWith(reply.response, <<"S","o","r","r","y",","," ","I"," ","c","o","u","l","d","n","'","t"," ">>)
              /\ reply.response \in {NotUnderstoodText, NoResponseText}

\* C8 witness: a request without keyword, the service answering with an
\* empty choices list, has been answered.
C8_Witness ==
    /\ pc = "done"
    /\ ViaFallback
    /\ fallback.has_key
    /\ fallback.outcome = "empty_choices"
    /\ reply.response = NotUnderstoodText

\* the hours and minutes of an ISO time, "HH:MM"
ClockOf(iso) == SubSeq(iso, 12, 16)

\* the date of an ISO time, "YYYY-MM-DD"
DateOf(iso) == SubSeq(iso, 1, 10)

\* the two synthetic events of a weekday, the morning one from..to
SyntheticPair(events, date, from, to) ==
    /\ Len(events) = 2
    /\ DateOf(events[1].start) = date /\ DateOf(events[1].end) = date
    /\ DateOf(events[2].start) = date /\ DateOf(events[2].end) = date
    /\ ClockOf(events[1].start) = from /\ ClockOf(events[1].end) = to
    /\ ClockOf(events[2].start) = <<"1","5",":","0","0">> /\ ClockOf(events[2].end) = <<"1","6",":","0","0">>

\* C9 as stated: without provider session, a range starting on a weekday
\* lists a 09:00-09:30 and a 15:00-16:00 event of that day, in that order,
\* and a range starting on a Saturday or Sunday lists nothing.
C9_MockEventsNineOClock ==
    (listed.called /\ service = "none") =>
        IF listed.start.day % 7 \in 0..4
        THEN SyntheticPair(listed.events, DateOf(isoformat(listed.start)),
                           <<"0","9",":","0","0">>, <<"0","9",":","3","0">>)
        ELSE listed.events = << >>

\* C9 as amended: the morning event is 10:00-10:30; the rest as stated, and
\* the events are those of the start's date whatever its hour.
C9_MockEventsTenOClock ==
    (listed.called /\ service = "none") =>
        IF listed.start.day % 7 \in 0..4
        THEN SyntheticPair(listed.events, DateOf(isoformat(listed.start)),
                           <<"1","0",":","0","0">>, <<"1","0",":","3","0">>)
        ELSE listed.events = << >>

\* C9 witness: the events of a weekday have been listed for a range that
\* starts in its evening.
C9_Witness ==
    /\ listed.called
    /\ service = "none"
    /\ listed.start.day % 7 = 4
    /\ listed.start.hour = 20
    /\ Len(listed.events) = 2

C11_SessionCreatedAndKept ==
    pc = "done" =>
        /\ request.session_id \in DOMAIN sessions
        /\ \E i \in 1..Len(sessions[request.session_id].turns) :
               sessions[request.session_id].turns[i]
                 = [role |-> "user", text |-> request.message]

\* what a process that has served nothing answers to `message`, given the
\* completion outcome drawn for the call
SoloAnswer(message, has_key, outcome) ==
    IF AnyIn(keywords, Lower(message))
    THEN LET seed  == [messages |-> <<HumanMessage(message)>>]
             final == Merge(seed, call_model(seed))
         IN  [intent            |-> final.user_intent,
              response          |-> final.messages[Len(final.messages)].content,
              booking_confirmed |-> final.user_intent = "confirmation"]
    ELSE [intent            |-> NoneValue,
          response          |-> call_groq_ai(message, has_key, outcome),
          booking_confirmed |-> FALSE]

=============================================================================
